---- MODULE Spec2Model ----
(***************************************************************************)
(* Cosmic Radiation Risk Calculator (src/app.py): one render of the        *)
(* Streamlit script, from the widgets through the live proton-flux fetch   *)
(* to the dose / risk model.                                               *)
(*                                                                         *)
(* Numbers.  Every quantity of the dose model is a product of finite       *)
(* decimals and of one factor exp(-0.1 * thickness_cm).  A number is kept  *)
(* exactly, as the record [m, e2, e5, x] that stands for                   *)
(*        m * 2^e2 * 5^e5 * exp(-x/10)                                     *)
(* with m an integer that neither 2 nor 5 divides (or m = 0, and then      *)
(* e2 = e5 = x = 0).  The representation is canonical: two numbers are     *)
(* equal exactly when their records are.  The arithmetic is the arithmetic *)
(* of the reals; the rounding of IEEE doubles is not modelled.             *)
(***************************************************************************)
EXTENDS Integers, Sequences, FiniteSets, TLC

RECURSIVE Pow(_, _)
Pow(b, n) == IF n = 0 THEN 1 ELSE b * Pow(b, n - 1)

\* how many times p divides n (n # 0)
RECURSIVE Mult(_, _)
Mult(n, p) == IF n % p = 0 THEN 1 + Mult(n \div p, p) ELSE 0

Zero == [m |-> 0, e2 |-> 0, e5 |-> 0, x |-> 0]

Norm(m, e2, e5, x) ==
    IF m = 0 THEN Zero
    ELSE LET c2 == Mult(m, 2)
             m2 == m \div Pow(2, c2)
             c5 == Mult(m2, 5)
         IN  [m |-> m2 \div Pow(5, c5), e2 |-> e2 + c2, e5 |-> e5 + c5, x |-> x]

FromInt(n) == Norm(n, 0, 0, 0)

\* the decimal literal n * 10^-k, e.g. Dec(5, 5) is 0.00005
Dec(n, k) == Norm(n, -k, -k, 0)

Min(a, b) == IF a <= b THEN a ELSE b

Neg(a) == [a EXCEPT !.m = -a.m]

Mul(a, b) == Norm(a.m * b.m, a.e2 + b.e2, a.e5 + b.e5, a.x + b.x)

\* a / b for a divisor that is a power of 2 times a power of 5 (1000, 100)
Div(a, b) == Norm(a.m * b.m, a.e2 - b.e2, a.e5 - b.e5, a.x - b.x)

\* a + b; the two terms carry the same exponential factor (or one is zero)
Add(a, b) ==
    IF a.m = 0 THEN b
    ELSE IF b.m = 0 THEN a
    ELSE IF a.x # b.x THEN "unrepresentable"
    ELSE LET e2 == Min(a.e2, b.e2)
             e5 == Min(a.e5, b.e5)
         IN  Norm(a.m * Pow(2, a.e2 - e2) * Pow(5, a.e5 - e5)
                    + b.m * Pow(2, b.e2 - e2) * Pow(5, b.e5 - e5),
                  e2, e5, a.x)

Sub(a, b) == Add(a, Neg(b))

\* exp(...) is positive, so the sign of a number is the sign of m
IsNegative(a) == a.m < 0

Less(a, b) == IsNegative(Sub(a, b))

LessEq(a, b) == a = b \/ Less(a, b)

\* the integer a number denotes (e2, e5 >= 0, x = 0)
ToInt(a) == a.m * Pow(2, a.e2) * Pow(5, a.e5)

\* np.exp of a multiple of -0.1: exp(-k/10) is the record with x = k
Exp(a) == [m |-> 1, e2 |-> 0, e5 |-> 0, x |-> ToInt(Mul(a, FromInt(-10)))]


(***************************************************************************)
(* Bounds of the model and the ranges of the widgets.                      *)
(***************************************************************************)
MaxDays == 3
MaxFlux == 1

SliderDaysMax == 1000
SliderThicknessMax == 20
SliderSolarMax == 100
SliderAgeMin == 18
SliderAgeMax == 80

\* st.slider("Mission Duration (days)", 1, 1000, 180): the short missions and
\* a sample of the long ones
MissionDaysChoices == (1..MaxDays) \cup {10, SliderDaysMax \div 2, SliderDaysMax}

Materials == {"None", "Aluminum", "Polyethylene"}

Locations == {"Sea Level", "Airplane (~10 km)", "ISS Orbit (~400 km)"}

\* st.slider("Shielding Thickness (cm)", 1, 20, 5), shown only with a material
ThicknessAlways(material) == {1, SliderThicknessMax}
ThicknessChoices(material) ==
    IF material # "None" THEN {1, SliderThicknessMax} ELSE {0}

\* st.slider("Solar Activity ...", 0, 100, 50)
SolarChoices == {0, 25, 50, SliderSolarMax}

\* st.slider("Your Age", 18, 80, 30)
AgeChoices == {SliderAgeMin, 50, 51, SliderAgeMax}

Sexes == {"Male", "Female"}

YesNo == {"No", "Yes"}

(***************************************************************************)
(* What the proton-flux endpoint can answer, as JSON values.               *)
(***************************************************************************)
JNull == [t |-> "null"]
JNum(n, k) == [t |-> "number", n |-> n, k |-> k]
JStr(s) == [t |-> "string", s |-> s]
JArr(items) == [t |-> "array", items |-> items]
JObj(fields) == [t |-> "object", fields |-> fields]

\* one record of the feed, with and without its 'flux' field
Sample(v) == JObj([channel |-> JStr(<<"P", "1">>), flux |-> v])
SampleNoFlux == JObj([channel |-> JStr(<<"P", "1">>)])

Body(data) == [kind |-> "JSON", data |-> data]

\* flux values float() converts
GoodFlux ==
    {JNum(n, 0) : n \in (-MaxFlux)..MaxFlux}
        \cup {JNum(100, 0), JNum(25, 2), JStr(<<"4">>), JStr(<<"-", "2", ".", "5">>)}

\* flux values float() rejects
BadFlux == {JNull, JStr(<<"a", "b", "c">>), JStr(<<>>), JArr(<<>>)}

LiveResponses == {Body(JArr(<<SampleNoFlux, Sample(v)>>)) : v \in GoodFlux}

\* network error, a body that is not JSON, an empty array, a last element
\* without 'flux', a 'flux' that is no number, a body that is no array
FailingResponses ==
    {[kind |-> "ConnectionError"], [kind |-> "NotJSON"],
     Body(JArr(<<>>)), Body(JArr(<<Sample(JNum(1, 0)), SampleNoFlux>>)),
     Body(SampleNoFlux), Body(JNull)}
        \cup {Body(JArr(<<Sample(v)>>)) : v \in BadFlux}

\* the server accepts the connection and never sends a byte
NeverResponds == [kind |-> "NeverResponds"]

Responses == LiveResponses \cup FailingResponses \cup {NeverResponds}

(***************************************************************************)
(* Python: the operations of the try body, each giving a value or raising. *)
(***************************************************************************)
Ok(v) == [ok |-> TRUE, v |-> v]
Raise(e) == [ok |-> FALSE, exc |-> e]

\* requests.get(url).json()
GetJson(r) ==
    CASE r.kind = "ConnectionError" -> Raise("ConnectionError")
      [] r.kind = "NotJSON" -> Raise("JSONDecodeError")
      [] r.kind = "JSON" -> Ok(r.data)

\* data[-1]
GetLast(data) ==
    CASE data.t = "array" ->
            IF Len(data.items) > 0 THEN Ok(data.items[Len(data.items)])
            ELSE Raise("IndexError")
      [] data.t = "string" ->
            IF Len(data.s) > 0 THEN Ok(JStr(<<data.s[Len(data.s)]>>))
            ELSE Raise("IndexError")
      [] data.t = "object" -> Raise("KeyError")
      [] OTHER -> Raise("TypeError")

\* element['flux']
GetFlux(el) ==
    IF el.t = "object"
    THEN IF "flux" \in DOMAIN el.fields THEN Ok(el.fields.flux) ELSE Raise("KeyError")
    ELSE Raise("TypeError")

Digits == <<"0", "1", "2", "3", "4", "5", "6", "7", "8", "9">>

IsDigit(c) == \E i \in 1..10 : Digits[i] = c

DigitValue(c) == (CHOOSE i \in 1..10 : Digits[i] = c) - 1

RECURSIVE DigitsValue(_)
DigitsValue(s) ==
    IF s = <<>> THEN 0 ELSE 10 * DigitsValue(SubSeq(s, 1, Len(s) - 1)) + DigitValue(s[Len(s)])

\* float(str) for plain decimal notation: [sign] digits [. digits]
FloatOfStr(s) ==
    LET signed == s # <<>> /\ s[1] \in {"-", "+"}
        body   == IF signed THEN Tail(s) ELSE s
        dots   == {i \in 1..Len(body) : body[i] = "."}
        digs   == SelectSeq(body, LAMBDA c : c # ".")
        places == IF dots = {} THEN 0 ELSE Len(body) - (CHOOSE i \in dots : TRUE)
        mag    == DigitsValue(digs)
    IN  IF Cardinality(dots) <= 1 /\ digs # <<>> /\ \A i \in 1..Len(digs) : IsDigit(digs[i])
        THEN Ok(Dec(IF signed /\ s[1] = "-" THEN -mag ELSE mag, places))
        ELSE Raise("ValueError")

\* float(value)
Float(v) ==
    CASE v.t = "number" -> Ok(Dec(v.n, v.k))
      [] v.t = "string" -> FloatOfStr(v.s)
      [] OTHER -> Raise("TypeError")

\* flux = float(requests.get(url).json()[-1]['flux'])
TryBody(r) ==
    LET j == GetJson(r) IN
    IF ~j.ok THEN j ELSE
    LET l == GetLast(j.v) IN
    IF ~l.ok THEN l ELSE
    LET f == GetFlux(l.v) IN
    IF ~f.ok THEN f ELSE Float(f.v)

\* except Exception: every exception of the try body derives from Exception
CatchesOnlyRequestErrors(exc) == exc = "ConnectionError"
Catches(exc) ==
    exc \in {"ConnectionError", "JSONDecodeError", "IndexError", "KeyError",
             "TypeError", "ValueError"}

FallbackFlux == FromInt(100)

(***************************************************************************)
(* The dose model, as the functions the script computes.                   *)
(***************************************************************************)
\* flare_days = min(2, mission_days) if solar_flare else 0
FlareDaysAlwaysTwo(flare, days) == IF flare THEN 2 ELSE 0
FlareDays(flare, days) == IF flare THEN Min(2, days) ELSE 0

\* normal_days = mission_days - flare_days if solar_flare else mission_days
NormalDays(flare, days) == IF flare THEN days - FlareDays(flare, days) ELSE days

\* base_dose_per_day = flux * 0.00005
BaseDose(f) == Mul(f, Dec(5, 5))

shield_factors == [None |-> FromInt(1), Aluminum |-> Dec(7, 1), Polyethylene |-> Dec(5, 1)]

location_factors ==
    ("Sea Level" :> FromInt(1)) @@ ("Airplane (~10 km)" :> FromInt(30))
        @@ ("ISS Orbit (~400 km)" :> FromInt(250))

\* dict[key]
LookupDefaultsToOne(dict, key) == IF key \in DOMAIN dict THEN Ok(dict[key]) ELSE Ok(FromInt(1))
Lookup(dict, key) == IF key \in DOMAIN dict THEN Ok(dict[key]) ELSE Raise("KeyError")

\* np.exp(-0.1 * thickness_cm) if shielding_material != "None" else 1.0
Attenuation(material, thickness) ==
    IF material # "None" THEN Exp(Mul(Dec(-1, 1), FromInt(thickness))) ELSE FromInt(1)

\* np.interp(x, xp, fp) for a scalar x and increasing xp
Interp(x, xp, fp) ==
    LET n == Len(xp) IN
    IF x > xp[n] THEN fp[n]
    ELSE IF x < xp[1] THEN fp[1]
    ELSE LET j == CHOOSE i \in 1..n : xp[i] <= x /\ (i = n \/ x < xp[i + 1]) IN
         IF j = n \/ xp[j] = x THEN fp[j]
         ELSE LET slope == Div(Sub(fp[j + 1], fp[j]), FromInt(xp[j + 1] - xp[j]))
              IN  Add(Mul(slope, FromInt(x - xp[j])), fp[j])

\* solar_factor = np.interp(solar_cycle, [0, 100], [1.2, 0.8])
SolarFactorFlat(cycle) == Interp(cycle, <<0, 50, 100>>, <<Dec(12, 1), FromInt(1), FromInt(1)>>)
SolarFactor(cycle) == Interp(cycle, <<0, 100>>, <<Dec(12, 1), Dec(8, 1)>>)

\* daily_dose = base_dose_per_day * material_factor * attenuation_factor
\*              * location_factor * solar_factor
DailyDose(base, mf, af, lf, sf) == Mul(Mul(Mul(Mul(base, mf), af), lf), sf)

\* total_dose = daily_dose * normal_days + daily_dose * 10 * flare_days
TotalDoseFlareEveryDay(daily, normal, flare) ==
    Mul(Mul(daily, FromInt(10)), FromInt(normal + flare))
TotalDoseOffset(daily, normal, flare) ==
    Add(Add(Mul(daily, FromInt(normal)), Mul(Mul(daily, FromInt(10)), FromInt(flare))), daily)
TotalDose(daily, normal, flare) ==
    Add(Mul(daily, FromInt(normal)), Mul(Mul(daily, FromInt(10)), FromInt(flare)))

\* risk_percent = (total_dose / 1000) * 5
BaseRisk(total) == Mul(Div(total, FromInt(1000)), FromInt(5))

\* if age > 50: *= 1.1; if sex == "Female": *= 1.2; if genetic_sensitivity == "Yes": *= 1.5
PersonalRiskFromFifty(risk, a, s, g) ==
    LET r1 == IF a >= 50 THEN Mul(risk, Dec(11, 1)) ELSE risk
        r2 == IF s = "Female" THEN Mul(r1, Dec(12, 1)) ELSE r1
    IN  IF g = "Yes" THEN Mul(r2, Dec(15, 1)) ELSE r2
PersonalRisk(risk, a, s, g) ==
    LET r1 == IF a > 50 THEN Mul(risk, Dec(11, 1)) ELSE risk
        r2 == IF s = "Female" THEN Mul(r1, Dec(12, 1)) ELSE r1
    IN  IF g = "Yes" THEN Mul(r2, Dec(15, 1)) ELSE r2

(***************************************************************************)
(* One render of the script.                                               *)
(***************************************************************************)
VARIABLES pc, mission_days, shielding_material, thickness_cm, location, solar_cycle,
          solar_flare, age, sex, genetic_sensitivity, response, flux, notice,
          flare_days, normal_days, base_dose_per_day, material_factor,
          attenuation_factor, location_factor, solar_factor, daily_dose, total_dose,
          risk_percent, error

mission == <<mission_days, shielding_material, thickness_cm, location, solar_cycle, solar_flare>>
personal == <<age, sex, genetic_sensitivity>>
fetch == <<response, flux, notice>>
days == <<flare_days, normal_days, base_dose_per_day>>
shield == <<material_factor, attenuation_factor>>
result == <<location_factor, solar_factor, daily_dose, total_dose, risk_percent>>
vars == <<pc, mission, personal, fetch, days, shield, result, error>>

\* A name the script has not bound yet holds a placeholder of its type:
\* Unbound for a string, -1 for an integer, FALSE for the checkbox, NoResponse
\* for the answer of the endpoint, NoNumber for a number of the dose model (no
\* number has m = 0 and x # 0).
Unbound == "unbound"
NoResponse == [kind |-> "unbound"]
NoNumber == [m |-> 0, e2 |-> 0, e5 |-> 0, x |-> -1]

Init ==
    /\ pc = "mission"
    /\ mission_days = -1 /\ shielding_material = Unbound /\ thickness_cm = -1
    /\ location = Unbound /\ solar_cycle = -1 /\ solar_flare = FALSE
    /\ age = -1 /\ sex = Unbound /\ genetic_sensitivity = Unbound
    /\ response = NoResponse /\ flux = NoNumber /\ notice = Unbound
    /\ flare_days = -1 /\ normal_days = -1 /\ base_dose_per_day = NoNumber
    /\ material_factor = NoNumber /\ attenuation_factor = NoNumber
    /\ location_factor = NoNumber /\ solar_factor = NoNumber
    /\ daily_dose = NoNumber /\ total_dose = NoNumber /\ risk_percent = NoNumber
    /\ error = "none"

\* lines 29-49: the mission widgets
MissionParameters ==
    /\ pc = "mission"
    /\ mission_days' \in MissionDaysChoices
    /\ shielding_material' \in Materials
    /\ thickness_cm' \in ThicknessChoices(shielding_material')
    /\ location' \in Locations
    /\ solar_cycle' \in SolarChoices
    /\ solar_flare' \in BOOLEAN
    /\ pc' = "personal"
    /\ UNCHANGED <<personal, fetch, days, shield, result, error>>

\* lines 56-58: the personal widgets
PersonalFactors ==
    /\ pc = "personal"
    /\ age' \in AgeChoices
    /\ sex' \in Sexes
    /\ genetic_sensitivity' \in YesNo
    /\ pc' = "fetch"
    /\ UNCHANGED <<mission, fetch, days, shield, result, error>>

\* line 68: requests.get(url), no timeout given: the script waits for whatever
\* the network does
RequestsGet ==
    /\ pc = "fetch"
    /\ response' \in Responses
    /\ pc' = "blocked"
    /\ UNCHANGED <<mission, personal, flux, notice, days, shield, result, error>>

\* lines 67-73: the try body on the answer, and the except clause
FetchFlux ==
    /\ pc = "blocked"
    /\ response # NeverResponds
    /\ LET got == TryBody(response) IN
        IF got.ok
        THEN /\ flux' = got.v /\ notice' = "success" /\ pc' = "dose" /\ error' = error
        ELSE IF Catches(got.exc)
        THEN /\ flux' = FallbackFlux /\ notice' = "warning" /\ pc' = "dose"
             /\ error' = error
        ELSE /\ error' = got.exc /\ pc' = "crashed" /\ UNCHANGED <<flux, notice>>
    /\ UNCHANGED <<mission, personal, response, days, shield, result>>

\* lines 80-123: the dose model
DoseModel ==
    /\ pc = "dose"
    /\ LET fd    == FlareDays(solar_flare, mission_days)
           nd    == NormalDays(solar_flare, mission_days)
           base  == BaseDose(flux)
           mf    == Lookup(shield_factors, shielding_material)
           af    == Attenuation(shielding_material, thickness_cm)
           lf    == Lookup(location_factors, location)
           sf    == SolarFactor(solar_cycle)
           daily == DailyDose(base, mf.v, af, lf.v, sf)
           total == TotalDose(daily, nd, fd)
           risk  == PersonalRisk(BaseRisk(total), age, sex, genetic_sensitivity)
       IN  /\ flare_days' = fd
           /\ normal_days' = nd
           /\ base_dose_per_day' = base
           /\ IF ~mf.ok
              THEN /\ error' = mf.exc /\ pc' = "crashed" /\ UNCHANGED <<shield, result>>
              ELSE /\ material_factor' = mf.v
                   /\ attenuation_factor' = af
                   /\ IF ~lf.ok
                      THEN /\ error' = lf.exc /\ pc' = "crashed" /\ UNCHANGED result
                      ELSE /\ location_factor' = lf.v
                           /\ solar_factor' = sf
                           /\ daily_dose' = daily
                           /\ total_dose' = total
                           /\ risk_percent' = risk
                           /\ pc' = "done" /\ error' = error
    /\ UNCHANGED <<mission, personal, fetch>>

Next == MissionParameters \/ PersonalFactors \/ RequestsGet \/ FetchFlux \/ DoseModel

Spec == Init /\ [][Next]_vars

\* the script runs on whenever it can take a step
FairSpec == Spec /\ WF_vars(Next)

(***************************************************************************)
(* The dose model on its own: lines 80-123 applied to parameters that need *)
(* not come from the widgets, so that the two dictionary lookups also meet *)
(* keys outside their dictionaries.                                        *)
(***************************************************************************)
AnyMaterials == Materials \cup {"Titanium"}

AnyLocations == Locations \cup {"Lunar Surface"}

EstimatorInit ==
    /\ pc = "dose"
    /\ mission_days \in MissionDaysChoices
    /\ shielding_material \in AnyMaterials
    /\ thickness_cm \in ThicknessChoices(shielding_material)
    /\ location \in AnyLocations
    /\ solar_cycle \in SolarChoices
    /\ solar_flare \in BOOLEAN
    /\ age \in AgeChoices /\ sex \in Sexes /\ genetic_sensitivity \in YesNo
    /\ response = [kind |-> "ConnectionError"] /\ flux = FallbackFlux /\ notice = "warning"
    /\ flare_days = -1 /\ normal_days = -1 /\ base_dose_per_day = NoNumber
    /\ material_factor = NoNumber /\ attenuation_factor = NoNumber
    /\ location_factor = NoNumber /\ solar_factor = NoNumber
    /\ daily_dose = NoNumber /\ total_dose = NoNumber /\ risk_percent = NoNumber
    /\ error = "none"

EstimatorNext == DoseModel

EstimatorSpec == EstimatorInit /\ [][EstimatorNext]_vars

(***************************************************************************)
(* Properties.                                                             *)
(***************************************************************************)
Fetched == pc \in {"dose", "done", "crashed"}

One == FromInt(1)

\* C1: whenever the live fetch fails (network error, a body that is not JSON,
\* an empty array, a last element without 'flux', a 'flux' that is no number)
\* the flux is exactly 100, the reading is announced as the fallback, nothing
\* propagates, and the dose model runs to its end on that value.
FallbackOnFailure ==
    (pc \in {"blocked", "dose", "done", "crashed"} /\ response \in FailingResponses) =>
        /\ pc # "crashed" /\ error = "none"
        /\ pc = "blocked" => ENABLED FetchFlux
        /\ Fetched => flux = FromInt(100) /\ notice = "warning"
        /\ pc = "done" =>
              /\ base_dose_per_day = Dec(5, 3)
              /\ daily_dose = Mul(Mul(Mul(Mul(Dec(5, 3), material_factor),
                                          attenuation_factor), location_factor), solar_factor)
              /\ total_dose # NoNumber /\ risk_percent # NoNumber

FallbackOnFailureWitness ==
    /\ pc = "done" /\ notice = "warning" /\ flux = FromInt(100)
    /\ response = Body(JArr(<<Sample(JNum(1, 0)), SampleNoFlux>>))

\* C2: every render eventually reaches the dose model with a flux reading,
\* also when the data source fails or never answers.
RenderReachesDoseModel == <>(pc \in {"dose", "done"})

\* C3: daily_dose, total_dose and risk_percent are never negative, whatever
\* reading the fetch hands over and whatever the widgets hold.
DoseNeverNegative ==
    pc = "done" =>
        ~IsNegative(daily_dose) /\ ~IsNegative(total_dose) /\ ~IsNegative(risk_percent)

\* C4: with a flare flare_days = min(2, mission_days), without one 0;
\* normal_days = mission_days - flare_days >= 0, and the two add up to
\* mission_days (a one-day mission with a flare: 1 flare day, 0 normal days).
DaySplit ==
    pc = "done" =>
        /\ flare_days = IF solar_flare
                        THEN (IF mission_days < 2 THEN mission_days ELSE 2)
                        ELSE 0
        /\ normal_days = mission_days - flare_days
        /\ normal_days >= 0
        /\ flare_days + normal_days = mission_days
        /\ (solar_flare /\ mission_days = 1) => flare_days = 1 /\ normal_days = 0

DaySplitWitness ==
    pc = "done" /\ solar_flare /\ mission_days = 1 /\ flare_days = 1 /\ normal_days = 0

\* C5: the 10x multiplier applies to the flare days only: with a flare
\* total_dose = daily_dose * (mission_days + 9 * min(2, mission_days)), without
\* one total_dose = daily_dose * mission_days; flux 100, 10 days, no shield,
\* sea level, solar 50, flare on gives daily_dose 0.005 and total_dose 0.14.
FlareScenario ==
    /\ flux = FromInt(100) /\ mission_days = 10 /\ shielding_material = "None"
    /\ location = "Sea Level" /\ solar_cycle = 50 /\ solar_flare

TotalDoseFormula ==
    pc = "done" =>
        /\ total_dose = Add(Mul(daily_dose, FromInt(normal_days)),
                            Mul(FromInt(10 * flare_days), daily_dose))
        /\ solar_flare =>
              total_dose = Mul(daily_dose, FromInt(mission_days + 9 * Min(2, mission_days)))
        /\ ~solar_flare => total_dose = Mul(daily_dose, FromInt(mission_days))
        /\ FlareScenario => daily_dose = Dec(5, 3) /\ total_dose = Dec(14, 2)

TotalDoseFormulaWitness == pc = "done" /\ FlareScenario /\ total_dose = Dec(14, 2)

\* C6: without a flare, and everything but the duration fixed, the total dose
\* is linear in the duration: total_dose(2d) = 2 * total_dose(d) whenever d and
\* 2d are both on the slider.
TotalDoseAt(d) ==
    TotalDose(DailyDose(BaseDose(flux), Lookup(shield_factors, shielding_material).v,
                        Attenuation(shielding_material, thickness_cm),
                        Lookup(location_factors, location).v, SolarFactor(solar_cycle)),
              NormalDays(solar_flare, d), FlareDays(solar_flare, d))

LinearInDuration ==
    (pc = "done" /\ ~solar_flare /\ 2 * mission_days <= SliderDaysMax) =>
        TotalDoseAt(2 * mission_days) = Mul(FromInt(2), total_dose)

LinearInDurationWitness ==
    /\ pc = "done" /\ ~solar_flare /\ mission_days = 500 /\ total_dose # Zero
    /\ TotalDoseAt(1000) = Mul(FromInt(2), total_dose)

\* C7: risk_percent is total_dose * 0.005 times 1.1 exactly when age > 50,
\* times 1.2 exactly when sex is Female, times 1.5 exactly when a genetic
\* sensitivity is known; the multipliers do not depend on each other nor on
\* their order.
AgeMultiplier == IF age > 50 THEN Dec(11, 1) ELSE One
SexMultiplier == IF sex = "Female" THEN Dec(12, 1) ELSE One
GeneticMultiplier == IF genetic_sensitivity = "Yes" THEN Dec(15, 1) ELSE One

RiskFormula ==
    pc = "done" =>
        LET base == Mul(total_dose, Dec(5, 3)) IN
        /\ risk_percent = Mul(Mul(Mul(base, AgeMultiplier), SexMultiplier), GeneticMultiplier)
        /\ risk_percent = Mul(Mul(Mul(base, GeneticMultiplier), SexMultiplier), AgeMultiplier)
        /\ risk_percent = Mul(Mul(Mul(base, SexMultiplier), AgeMultiplier), GeneticMultiplier)
        /\ risk_percent = Mul(base, Mul(GeneticMultiplier, Mul(AgeMultiplier, SexMultiplier)))
        /\ (age <= 50 /\ sex = "Male" /\ genetic_sensitivity = "No") => risk_percent = base
        /\ (age > 50 /\ sex = "Female" /\ genetic_sensitivity = "Yes") =>
              risk_percent = Mul(Mul(Mul(base, Dec(11, 1)), Dec(12, 1)), Dec(15, 1))

RiskFormulaWitness ==
    /\ pc = "done" /\ age = 50 /\ sex = "Female" /\ genetic_sensitivity = "Yes"
    /\ total_dose # Zero /\ risk_percent = Mul(total_dose, Dec(9, 3))

\* C8 as stated: a material or a location outside its dictionary makes the
\* lookup fail with InvalidConfiguration and no dose result is produced; inside
\* the dictionaries the lookups give the listed factors.
LookupOutcome(name) ==
    pc \in {"done", "crashed"} =>
        IF shielding_material \notin Materials \/ location \notin Locations
        THEN /\ pc = "crashed" /\ error = name
             /\ daily_dose = NoNumber /\ total_dose = NoNumber /\ risk_percent = NoNumber
        ELSE /\ pc = "done" /\ error = "none"
             /\ material_factor = CASE shielding_material = "None" -> One
                                    [] shielding_material = "Aluminum" -> Dec(7, 1)
                                    [] shielding_material = "Polyethylene" -> Dec(5, 1)
             /\ location_factor = CASE location = "Sea Level" -> One
                                    [] location = "Airplane (~10 km)" -> FromInt(30)
                                    [] location = "ISS Orbit (~400 km)" -> FromInt(250)

SolarLine(cycle) == Sub(Dec(12, 1), Mul(Dec(4, 3), FromInt(cycle)))

SolarFactorOnSlider ==
    /\ \A c \in 0..SliderSolarMax :
          /\ SolarFactor(c) = SolarLine(c)
          /\ LessEq(Dec(8, 1), SolarFactor(c)) /\ LessEq(SolarFactor(c), Dec(12, 1))
          /\ c < SliderSolarMax => Less(SolarFactor(c + 1), SolarFactor(c))
    /\ SolarFactor(0) = Dec(12, 1) /\ SolarFactor(50) = One /\ SolarFactor(100) = Dec(8, 1)

SolarFactorLinear ==
    /\ SolarFactorOnSlider
    /\ pc = "done" =>
          /\ solar_factor = SolarLine(solar_cycle)
          /\ LessEq(Dec(8, 1), solar_factor) /\ LessEq(solar_factor, Dec(12, 1))

SolarFactorLinearWitness == pc = "done" /\ solar_cycle = 50 /\ solar_factor = One

\* C10: with no shielding material the thickness is 0, the attenuation factor
\* and the material factor are 1.0 and daily_dose = flux * 0.00005 *
\* location_factor * solar_factor; the thickness is non-zero (1..20) only with
\* a material other than None.
NoShielding ==
    /\ pc \in {"personal", "fetch", "blocked", "dose", "done", "crashed"} =>
          /\ shielding_material = "None" => thickness_cm = 0
          /\ thickness_cm # 0 =>
                shielding_material # "None" /\ thickness_cm \in 1..SliderThicknessMax
    /\ (pc = "done" /\ shielding_material = "None") =>
          /\ attenuation_factor = One /\ material_factor = One
          /\ daily_dose = Mul(Mul(Mul(flux, Dec(5, 5)), location_factor), solar_factor)

NoShieldingWitness ==
    /\ pc = "done" /\ shielding_material = "None" /\ thickness_cm = 0
    /\ attenuation_factor = One /\ daily_dose # Zero

====
